---- MODULE Spec2Model ----
(***************************************************************************)
(* Payment-negotiation and settlement gateway of the x402 cross-chain      *)
(* example: the Express and Hono servers, the Stacks payment middleware    *)
(* (v2 Payment-Signature and legacy X-PAYMENT), the demo EVM middleware,   *)
(* the cross-chain GET /weather handlers and the facilitator settle call.  *)
(***************************************************************************)
EXTENDS Integers, Sequences, FiniteSets, TLC

\* Number of requests the gateway handles concurrently in one behaviour.
NumReqs == 2

Reqs == 1..NumReqs

\* JavaScript undefined, for optional string-valued fields.
Undef == "undefined"

(***************************************************************************)
(* Static configuration.                                                   *)
(***************************************************************************)

STACKS_NETWORK_IDS ==
  [mainnet |-> <<"stacks", "1">>, testnet |-> <<"stacks", "2147483648">>]

DEFAULT_ACCEPTED_TOKENS == <<"STX", "sBTC", "USDCx">>

DEFAULT_TIMEOUT_SECONDS == 300

\* process.env.STACKS_NETWORK || "testnet", process.env.SERVER_ADDRESS_STACKS || ""
StacksConfigs ==
  [network : {"testnet"}, payTo : {"ST_SERVER"}, facilitatorUrl : {"https://facilitator"}]

Deployments ==
  { [framework |-> "express", proto |-> "v2"],
    [framework |-> "hono",    proto |-> "v2"],
    [framework |-> "express", proto |-> "legacy"] }

\* Routes bound by the servers, with the options given to the middleware factory.
Routes == {"/stacks/weather", "/stacks/ai/complete", "/evm/weather", "/weather"}

RouteAmount(route) == IF route = "/stacks/ai/complete" THEN 10000 ELSE 1000

\* acceptTokens = DEFAULT_ACCEPTED_TOKENS on every route of the servers.
RouteAcceptTokens(route) == DEFAULT_ACCEPTED_TOKENS

\* Array.prototype.includes
Includes(s, x) == \E i \in 1..Len(s) : s[i] = x

(***************************************************************************)
(* Payment Payload Codec.  A header value is a sequence of characters     *)
(* groups: <<"b64", t>> is a run of base64 characters that encodes the     *)
(* JSON text fragment t, <<"ill", c>> is a character outside the base64    *)
(* alphabet.  A JSON text is the sequence of its fragments.                *)
(***************************************************************************)

Proofs == {"txA", "txB"}

\* The accepted requirements a client may place in its payload, by name.
AcceptedPool ==
  [ aSTX   |-> [network |-> <<"stacks", "2147483648">>, payTo |-> "ST_SERVER", tokenType |-> "STX",
                asset |-> <<"STX">>, amount |-> "1000"],
    aSBTC  |-> [network |-> <<"stacks", "2147483648">>, payTo |-> "ST_SERVER", tokenType |-> "sBTC",
                asset |-> <<"ST1F7QA2MDF17S807EPA36TSS8AMEFY4KA9TVGWXT", "sbtc-token", "sbtc-token">>, amount |-> "100"],
    aSBTCRoute |-> [network |-> <<"stacks", "2147483648">>, payTo |-> "ST_SERVER", tokenType |-> "sBTC",
                asset |-> <<"ST1F7QA2MDF17S807EPA36TSS8AMEFY4KA9TVGWXT", "sbtc-token", "sbtc-token">>, amount |-> "1000"],
    aUSDCx |-> [network |-> <<"stacks", "2147483648">>, payTo |-> "ST_SERVER", tokenType |-> "USDCx",
                asset |-> <<"ST1NXBK3K5YYMD6FD41MVNP3JS1GABZ8TRVX023PT", "token-susdc", "token-susdc">>, amount |-> "1000"],
    aSTXAmount |-> [network |-> <<"stacks", "2147483648">>, payTo |-> "ST_SERVER", tokenType |-> "STX",
                asset |-> <<"STX">>, amount |-> "1"],
    aSTXPayTo  |-> [network |-> <<"stacks", "2147483648">>, payTo |-> "ST_CLIENT", tokenType |-> "STX",
                asset |-> <<"STX">>, amount |-> "1000"],
    aNoTok |-> [network |-> <<"stacks", "2147483648">>, payTo |-> "ST_SERVER", tokenType |-> Undef,
                asset |-> <<"STX">>, amount |-> "1000"],
    aDOGE  |-> [network |-> <<"stacks", "2147483648">>, payTo |-> "ST_SERVER", tokenType |-> "DOGE",
                asset |-> <<"DOGE">>, amount |-> "1000"],
    aEVM   |-> [network |-> <<"eip155", "84532">>, payTo |-> "0xSERVER", tokenType |-> Undef,
                asset |-> <<"eip155:84532/erc20:0x036CbD53842c5426634e7929541eC2318f3dCF7e">>, amount |-> "1000"],
    aSOL   |-> [network |-> <<"solana", "devnet">>, payTo |-> "SOL_SERVER", tokenType |-> Undef,
                asset |-> <<"SOL">>, amount |-> "1000"],
    aNoNet |-> [network |-> <<>>, payTo |-> "ST_SERVER", tokenType |-> "STX",
                asset |-> <<"STX">>, amount |-> "1000"] ]

\* accepted.network is a string; <<>> stands for a missing network field.
HasNetwork(acc) == acc.network # <<>>

\* String.prototype.startsWith("stacks:") on a CAIP-2 id "family:reference".
StartsWithStacks(network) == Len(network) >= 2 /\ network[1] = "stacks"

FieldTokens ==
  [ ver1 |-> [field |-> "x402Version", value |-> "1"],
    ver2 |-> [field |-> "x402Version", value |-> "2"],
    accSTX   |-> [field |-> "accepted", value |-> "aSTX"],
    accSBTC  |-> [field |-> "accepted", value |-> "aSBTC"],
    accSBTCRoute |-> [field |-> "accepted", value |-> "aSBTCRoute"],
    accUSDCx |-> [field |-> "accepted", value |-> "aUSDCx"],
    accSTXAmount |-> [field |-> "accepted", value |-> "aSTXAmount"],
    accSTXPayTo  |-> [field |-> "accepted", value |-> "aSTXPayTo"],
    accNoTok |-> [field |-> "accepted", value |-> "aNoTok"],
    accDOGE  |-> [field |-> "accepted", value |-> "aDOGE"],
    accEVM   |-> [field |-> "accepted", value |-> "aEVM"],
    accSOL   |-> [field |-> "accepted", value |-> "aSOL"],
    accNoNet |-> [field |-> "accepted", value |-> "aNoNet"],
    resWeather |-> [field |-> "resource", value |-> "/weather"],
    resData    |-> [field |-> "resource", value |-> "/api/data"],
    schemeExact |-> [field |-> "scheme", value |-> "exact"],
    netEVM      |-> [field |-> "network", value |-> "eip155:84532"],
    payEvmMock  |-> [field |-> "payload", value |-> "0x_mock_signature_for_demo"],
    payA |-> [field |-> "payload", value |-> "txA"],
    payB |-> [field |-> "payload", value |-> "txB"] ]

IsFieldToken(t) == t \in DOMAIN FieldTokens

\* Buffer.from(header, "base64"): characters outside the alphabet are skipped,
\* it never throws.
Base64Decode(header) ==
  LET kept == SelectSeq(header, LAMBDA c : c[1] = "b64")
  IN  [i \in 1..Len(kept) |-> kept[i][2]]

\* Buffer.from(text).toString("base64")
Base64Encode(text) == [i \in 1..Len(text) |-> <<"b64", text[i]>>]

SyntaxError == [kind |-> "SyntaxError", x402Version |-> Undef, resource |-> Undef,
                accepted |-> Undef, payload |-> Undef]

\* The value of field f in an object text: the last occurrence wins.
FieldValue(text, f) ==
  LET idx == { i \in 2..(Len(text) - 1) : FieldTokens[text[i]].field = f }
  IN  IF idx = {} THEN Undef
      ELSE FieldTokens[text[CHOOSE i \in idx : \A j \in idx : j <= i]].value

\* JSON.parse: null, a number, or an object of the four payload fields;
\* anything else is a SyntaxError.
JSONParse(text) ==
  IF text = <<"null">> THEN
    [kind |-> "null", x402Version |-> Undef, resource |-> Undef,
     accepted |-> Undef, payload |-> Undef]
  ELSE IF text = <<"7">> THEN
    [kind |-> "number", x402Version |-> Undef, resource |-> Undef,
     accepted |-> Undef, payload |-> Undef]
  ELSE IF /\ Len(text) >= 2
          /\ text[1] = "{"
          /\ text[Len(text)] = "}"
          /\ \A i \in 2..(Len(text) - 1) : IsFieldToken(text[i])
  THEN [kind |-> "object",
        x402Version |-> FieldValue(text, "x402Version"),
        resource |-> FieldValue(text, "resource"),
        accepted |-> FieldValue(text, "accepted"),
        payload |-> FieldValue(text, "payload")]
  ELSE SyntaxError

\* decodePaymentSignature: JSON.parse(Buffer.from(header, "base64").toString())
decodePaymentSignature(header) == JSONParse(Base64Decode(header))

Threw(decoded) == decoded.kind = "SyntaxError"

\* The JSON text of one property, nothing for an undefined value.
FieldText(f, v) ==
  IF v = Undef THEN <<>>
  ELSE << CHOOSE t \in DOMAIN FieldTokens : FieldTokens[t] = [field |-> f, value |-> v] >>

\* JSONStringify that leaves the resource descriptor out.
JSONStringifyNoResource(p) ==
  <<"{">> \o FieldText("x402Version", p.x402Version)
         \o FieldText("accepted", p.accepted) \o FieldText("payload", p.payload)
         \o <<"}">>

\* JSON.stringify of a payload object: its defined properties, in order.
JSONStringify(p) ==
  <<"{">> \o FieldText("x402Version", p.x402Version) \o FieldText("resource", p.resource)
         \o FieldText("accepted", p.accepted) \o FieldText("payload", p.payload)
         \o <<"}">>

\* encodePaymentSignature: Buffer.from(JSON.stringify(payload)).toString("base64")
encodePaymentSignature(p) == Base64Encode(JSONStringify(p))

(***************************************************************************)
(* Token / network registry and the requirement builder.                   *)
(***************************************************************************)

TOKEN_CONTRACTS ==
  [ mainnet |->
      [ sBTC  |-> [address |-> "SM3VDXK3WZZSA84XXFKAFAF15NNZX32CTSG82JFQ4", name |-> "sbtc-token"],
        USDCx |-> [address |-> "SP120SBRBQJ00MCWS7TM5R8WJNTTKD5K0HFRC2CNE", name |-> "usdcx"] ],
    testnet |->
      [ sBTC  |-> [address |-> "ST1F7QA2MDF17S807EPA36TSS8AMEFY4KA9TVGWXT", name |-> "sbtc-token"],
        USDCx |-> [address |-> "ST1NXBK3K5YYMD6FD41MVNP3JS1GABZ8TRVX023PT", name |-> "token-susdc"] ] ]

\* getAssetIdentifier that reads the testnet registry whatever the network.
getAssetIdentifierTestnetOnly(tokenType, network) ==
  IF tokenType = "STX" THEN <<"STX">>
  ELSE LET contract == TOKEN_CONTRACTS["testnet"][tokenType]
       IN  <<contract.address, contract.name, contract.name>>

\* `${contract.address}.${contract.name}::${contract.name}`, or "STX"
getAssetIdentifier(tokenType, network) ==
  IF tokenType = "STX" THEN <<"STX">>
  ELSE LET contract == TOKEN_CONTRACTS[network][tokenType]
       IN  <<contract.address, contract.name, contract.name>>

evmConfig ==
  [ network |-> <<"eip155", "84532">>,
    payTo |-> "0xSERVER",
    facilitatorUrl |-> "https://x402.org/facilitator",
    asset |-> <<"eip155:84532/erc20:0x036CbD53842c5426634e7929541eC2318f3dCF7e">> ]

Requirement(network, asset, amount, payTo, facilitator, tokenType) ==
  [ network |-> network, asset |-> asset, amount |-> amount, payTo |-> payTo,
    facilitator |-> facilitator, tokenType |-> tokenType ]

\* build402ResponseV2 with the testnet identifier written in, whatever the
\* configured network.
build402ResponseV2TestnetId(cfg, amount, acceptTokens) ==
  [ i \in 1..Len(acceptTokens) |->
      Requirement(STACKS_NETWORK_IDS["testnet"],
                  getAssetIdentifier(acceptTokens[i], cfg.network),
                  ToString(amount), cfg.payTo, cfg.facilitatorUrl, acceptTokens[i]) ]

\* accepts of build402ResponseV2: acceptTokens.map(tokenType => requirement)
build402ResponseV2(cfg, amount, acceptTokens) ==
  [ i \in 1..Len(acceptTokens) |->
      Requirement(STACKS_NETWORK_IDS[cfg.network],
                  getAssetIdentifier(acceptTokens[i], cfg.network),
                  ToString(amount), cfg.payTo, cfg.facilitatorUrl, acceptTokens[i]) ]

\* accepts of the legacy build402Response: one requirement, for tokenType
build402Response(cfg, amount, tokenType) ==
  << Requirement(STACKS_NETWORK_IDS[cfg.network],
                 getAssetIdentifier(tokenType, cfg.network),
                 ToString(amount), cfg.payTo, cfg.facilitatorUrl, tokenType) >>

\* accepts of the 402 body written inline in the cross-chain GET /weather (v2)
CrossChainAcceptsV2(cfg) ==
  << Requirement(evmConfig.network, evmConfig.asset, "1000", evmConfig.payTo,
                 evmConfig.facilitatorUrl, Undef),
     Requirement(STACKS_NETWORK_IDS[cfg.network], <<"STX">>, "1000", cfg.payTo,
                 cfg.facilitatorUrl, "STX"),
     Requirement(STACKS_NETWORK_IDS[cfg.network], getAssetIdentifier("sBTC", cfg.network),
                 "100", cfg.payTo, cfg.facilitatorUrl, "sBTC") >>

\* accepts of the 402 body of the legacy cross-chain GET /weather
CrossChainAcceptsLegacy(cfg) ==
  << Requirement(evmConfig.network, evmConfig.asset, "1000", evmConfig.payTo,
                 evmConfig.facilitatorUrl, Undef),
     Requirement(STACKS_NETWORK_IDS[cfg.network], <<"STX">>, "1000", cfg.payTo,
                 cfg.facilitatorUrl, "STX") >>

\* accepts of the 402 body of the demo EVM middleware.  The Express router
\* writes a requirement without an extra map (no facilitator); the Hono
\* middleware adds maxTimeoutSeconds and extra.facilitator.
EvmAccepts(srv, amount) ==
  << Requirement(evmConfig.network, evmConfig.asset, amount, evmConfig.payTo,
                 IF srv.framework = "hono" THEN evmConfig.facilitatorUrl ELSE Undef,
                 Undef) >>

(***************************************************************************)
(* Requests, responses and the synchronous part of each handler (the code  *)
(* that runs before the first await).                                      *)
(***************************************************************************)

\* A request header that carries a v2 Payment-Signature value.
NoHeader == [present |-> FALSE, val |-> <<>>]

Header(val) == [present |-> TRUE, val |-> val]

\* Falsy that takes only an absent header as falsy.
FalsyAbsentOnly(header) == ~header.present

\* !header: an absent header and the empty string are both falsy.
Falsy(header) == ~header.present \/ header.val = <<>>

\* A legacy X-PAYMENT value is an opaque string: what the code looks at is
\* whether it starts with "0x" and whether it is longer than 500 characters.
NoXPayment == [present |-> FALSE, hex0x |-> FALSE, long |-> FALSE, proof |-> Undef]

XPayment(hex0x, long, proof) ==
  [present |-> TRUE, hex0x |-> hex0x, long |-> long, proof |-> proof]

Resp(status, error, code, details, accepts) ==
  [status |-> status, error |-> error, code |-> code, details |-> details,
   accepts |-> accepts]

NoResp == Resp(0, "", Undef, Undef, <<>>)

Call(proof, network, asset, amount, payTo, tokenType) ==
  [proof |-> proof, network |-> network, asset |-> asset, amount |-> amount,
   payTo |-> payTo, tokenType |-> tokenType]

NoCall == Call(Undef, <<>>, <<>>, Undef, Undef, Undef)

Respond(resp) == [act |-> "respond", resp |-> resp, call |-> NoCall]

Settle(call) == [act |-> "settle", resp |-> NoResp, call |-> call]

\* A TypeError (or any exception) that no try block of the handler catches.
Throw == [act |-> "throw", resp |-> NoResp, call |-> NoCall]

\* The resource handler runs without any settlement call.
RunHandler == [act |-> "handler", resp |-> NoResp, call |-> NoCall]

InvalidHeaderResp ==
  Resp(400, "Invalid Payment-Signature header", Undef,
       "Expected base64-encoded JSON payload", <<>>)

\* acceptTokens.includes(tokenType)
TokenAccepted(acceptTokens, tokenType) == Includes(acceptTokens, tokenType)

\* paymentPayload.x402Version !== 2
VersionMismatch(decoded) == decoded.x402Version # "2"

\* StacksMiddlewareV2 that submits the proof without looking at its token type.
StacksMiddlewareV2NoTokenCheck(cfg, amount, acceptTokens, sig) ==
  IF Falsy(sig) THEN
    Respond(Resp(402, "Payment Required", Undef, Undef,
                 build402ResponseV2(cfg, amount, acceptTokens)))
  ELSE
    LET paymentPayload == decodePaymentSignature(sig.val) IN
    IF Threw(paymentPayload) THEN Respond(InvalidHeaderResp)
    ELSE IF paymentPayload.kind = "null" THEN Throw
    ELSE IF VersionMismatch(paymentPayload) THEN
      Respond(Resp(400, "Invalid x402 version", Undef, Undef, <<>>))
    ELSE IF paymentPayload.accepted = Undef THEN Throw
    ELSE
      LET accepted == AcceptedPool[paymentPayload.accepted]
          tokenType == IF accepted.tokenType = Undef THEN "STX"
                       ELSE accepted.tokenType
      IN  Settle(Call(paymentPayload.payload, accepted.network, accepted.asset,
                      ToString(amount), cfg.payTo, tokenType))

\* StacksMiddlewareV2 that copies amount and payTo of the requirement from the
\* client's payload, as it does network and asset.
StacksMiddlewareV2TermsFromPayload(cfg, amount, acceptTokens, sig) ==
  IF Falsy(sig) THEN
    Respond(Resp(402, "Payment Required", Undef, Undef,
                 build402ResponseV2(cfg, amount, acceptTokens)))
  ELSE
    LET paymentPayload == decodePaymentSignature(sig.val) IN
    IF Threw(paymentPayload) THEN Respond(InvalidHeaderResp)
    ELSE IF paymentPayload.kind = "null" THEN Throw
    ELSE IF VersionMismatch(paymentPayload) THEN
      Respond(Resp(400, "Invalid x402 version", Undef, Undef, <<>>))
    ELSE IF paymentPayload.accepted = Undef THEN Throw
    ELSE
      LET accepted == AcceptedPool[paymentPayload.accepted]
          tokenType == IF accepted.tokenType = Undef THEN "STX"
                       ELSE accepted.tokenType
      IN  IF ~TokenAccepted(acceptTokens, tokenType) THEN
            Respond(Resp(400, "Unsupported token type", Undef, Undef, <<>>))
          ELSE
            Settle(Call(paymentPayload.payload, accepted.network, accepted.asset,
                        accepted.amount, accepted.payTo, tokenType))

\* stacksPaymentMiddleware (v2), up to the await of settleWithFacilitatorV2
StacksMiddlewareV2(cfg, amount, acceptTokens, sig) ==
  IF Falsy(sig) THEN
    Respond(Resp(402, "Payment Required", Undef, Undef,
                 build402ResponseV2(cfg, amount, acceptTokens)))
  ELSE
    LET paymentPayload == decodePaymentSignature(sig.val) IN
    IF Threw(paymentPayload) THEN Respond(InvalidHeaderResp)
    ELSE IF paymentPayload.kind = "null" THEN Throw
    ELSE IF VersionMismatch(paymentPayload) THEN
      Respond(Resp(400, "Invalid x402 version", Undef, Undef, <<>>))
    ELSE IF paymentPayload.accepted = Undef THEN Throw
    ELSE
      LET accepted == AcceptedPool[paymentPayload.accepted]
          tokenType == IF accepted.tokenType = Undef THEN "STX"
                       ELSE accepted.tokenType
      IN  IF ~TokenAccepted(acceptTokens, tokenType) THEN
            Respond(Resp(400, "Unsupported token type", Undef, Undef, <<>>))
          ELSE
            Settle(Call(paymentPayload.payload, accepted.network, accepted.asset,
                        ToString(amount), cfg.payTo, tokenType))

\* StacksMiddlewareLegacy that answers a request without a proof before it
\* looks at the token type, and offers STX when the token is not accepted.
StacksMiddlewareLegacyIssueFirst(cfg, amount, acceptTokens, xpay, tok) ==
  LET tokenType == IF tok = Undef \/ tok = "" THEN "STX" ELSE tok IN
  IF ~xpay.present THEN
    Respond(Resp(402, "Payment Required", Undef, Undef,
                 build402Response(cfg, amount,
                                  IF TokenAccepted(acceptTokens, tokenType)
                                  THEN tokenType ELSE "STX")))
  ELSE IF ~TokenAccepted(acceptTokens, tokenType) THEN
    Respond(Resp(400, "Unsupported token type", Undef, Undef, <<>>))
  ELSE
    Settle(Call(xpay.proof, STACKS_NETWORK_IDS[cfg.network],
                getAssetIdentifier(tokenType, cfg.network),
                ToString(amount), cfg.payTo, tokenType))

\* stacksPaymentMiddleware (legacy X-PAYMENT), up to the await of settlePayment.
\* req.header("x-payment-token-type") || "STX": an absent or empty header
\* selects STX.
StacksMiddlewareLegacy(cfg, amount, acceptTokens, xpay, tok) ==
  LET tokenType == IF tok = Undef \/ tok = "" THEN "STX" ELSE tok IN
  IF ~TokenAccepted(acceptTokens, tokenType) THEN
    Respond(Resp(400, "Unsupported token type", Undef, Undef, <<>>))
  ELSE IF ~xpay.present THEN
    Respond(Resp(402, "Payment Required", Undef, Undef,
                 build402Response(cfg, amount, tokenType)))
  ELSE
    Settle(Call(xpay.proof, STACKS_NETWORK_IDS[cfg.network],
                getAssetIdentifier(tokenType, cfg.network),
                ToString(amount), cfg.payTo, tokenType))

\* evmPaymentMiddleware: any non-empty payment header is taken as verified
EvmMiddleware(srv, sig, xpay) ==
  IF Falsy(sig) /\ ~xpay.present THEN
    Respond(Resp(402, "Payment Required", Undef, Undef, EvmAccepts(srv, "1000")))
  ELSE RunHandler

\* CrossChainRoute that sends a payload to the Stacks middleware only when it
\* also names a token type.
CrossChainRouteByToken(sig) ==
  LET payload == decodePaymentSignature(sig.val) IN
  IF Threw(payload) \/ payload.kind = "null" \/ payload.accepted = Undef THEN "throw"
  ELSE LET accepted == AcceptedPool[payload.accepted] IN
       IF ~HasNetwork(accepted) THEN "throw"
       ELSE IF StartsWithStacks(accepted.network) /\ accepted.tokenType # Undef THEN "stacks"
       ELSE "evm"

\* payload.accepted.network.startsWith("stacks:") inside the try block of the
\* cross-chain handler: "throw" when decoding or a property access throws.
CrossChainRoute(sig) ==
  LET payload == decodePaymentSignature(sig.val) IN
  IF Threw(payload) \/ payload.kind = "null" \/ payload.accepted = Undef THEN "throw"
  ELSE LET accepted == AcceptedPool[payload.accepted] IN
       IF ~HasNetwork(accepted) THEN "throw"
       ELSE IF StartsWithStacks(accepted.network) THEN "stacks"
       ELSE "evm"

\* GET /weather (v2), up to the first await
CrossChainV2(cfg, sig) ==
  IF Falsy(sig) THEN
    Respond(Resp(402, "Payment Required", Undef, Undef, CrossChainAcceptsV2(cfg)))
  ELSE LET route == CrossChainRoute(sig) IN
       IF route = "throw" THEN Respond(InvalidHeaderResp)
       ELSE IF route = "stacks" THEN
         StacksMiddlewareV2(cfg, 1000, DEFAULT_ACCEPTED_TOKENS, sig)
       ELSE RunHandler

\* stacksPayment && (stacksPayment.length > 500 || stacksPayment.startsWith("0x"))
IsStacksPaymentLegacy(xpay) == xpay.present /\ (xpay.long \/ xpay.hex0x)

\* GET /weather (legacy), up to the first await
CrossChainLegacy(cfg, sig, xpay, tok) ==
  IF Falsy(sig) /\ ~xpay.present THEN
    Respond(Resp(402, "Payment Required", Undef, Undef, CrossChainAcceptsLegacy(cfg)))
  ELSE IF IsStacksPaymentLegacy(xpay) THEN
    StacksMiddlewareLegacy(cfg, 1000, DEFAULT_ACCEPTED_TOKENS, xpay, tok)
  ELSE RunHandler

\* The route table of a server.
Dispatch(srv, cfg, rq) ==
  IF rq.route = "/evm/weather" THEN EvmMiddleware(srv, rq.sig, rq.xpay)
  ELSE IF rq.route = "/weather" THEN
    IF srv.proto = "v2" THEN CrossChainV2(cfg, rq.sig)
    ELSE CrossChainLegacy(cfg, rq.sig, rq.xpay, rq.tok)
  ELSE
    IF srv.proto = "v2" THEN
      StacksMiddlewareV2(cfg, RouteAmount(rq.route), RouteAcceptTokens(rq.route), rq.sig)
    ELSE
      StacksMiddlewareLegacy(cfg, RouteAmount(rq.route), RouteAcceptTokens(rq.route),
                             rq.xpay, rq.tok)

(***************************************************************************)
(* The facilitator's reply and the code that runs after the await.         *)
(***************************************************************************)

\* What the settle call comes back with.  settled tells whether the
\* facilitator executed the settlement before the reply was produced.
ReplyKinds ==
  {"success", "rejected", "nosuccess", "nullbody", "malformed", "non2xx", "neterr"}

Reply(kind, didSettle, payer) == [kind |-> kind, settled |-> didSettle, payer |-> payer]

NoReply == Reply("none", FALSE, Undef)

\* The transaction id under which the facilitator broadcasts a proof.
TxIds == [txA |-> "0xtxidA", txB |-> "0xtxidB"]

Body(kind, success, transaction, payer, errorReason) ==
  [kind |-> kind, success |-> success, transaction |-> transaction,
   payer |-> payer, errorReason |-> errorReason]

NoBody == Body("none", Undef, Undef, Undef, Undef)

Returned(body) == [threw |-> FALSE, message |-> Undef, body |-> body]

Rejected(message) == [threw |-> TRUE, message |-> message, body |-> NoBody]

\* settleWithFacilitatorV2: fetch rejects on a connection error, a non-2xx
\* status throws, response.json() rejects on a malformed body.
settleWithFacilitatorV2(rep, proof) ==
  CASE rep.kind = "neterr"    -> Rejected("fetch failed")
    [] rep.kind = "non2xx"    -> Rejected("Facilitator settle failed: 500")
    [] rep.kind = "malformed" -> Rejected("Unexpected token in JSON")
    [] rep.kind = "nullbody"  -> Returned(Body("null", Undef, Undef, Undef, Undef))
    [] rep.kind = "nosuccess" -> Returned(Body("object", Undef, Undef, Undef, Undef))
    [] rep.kind = "rejected"  ->
         Returned(Body("object", "false", Undef, Undef, "invalid_transaction"))
    [] rep.kind = "success"   ->
         Returned(Body("object", "true", TxIds[proof], rep.payer, Undef))

\* verifier.settlePayment of x402-stacks, as the legacy middleware reads it:
\* isValid / validationError / txId / sender, or a rejected promise.
settlePayment(rep, proof) ==
  CASE rep.kind = "success"  ->
         Returned(Body("object", "true", TxIds[proof], rep.payer, Undef))
    [] rep.kind = "rejected" ->
         Returned(Body("object", "false", Undef, Undef, "invalid_transaction"))
    [] OTHER -> Rejected("settle failed")

Context(network, verified, txId, payerAddress, tokenType, amount) ==
  [attached |-> TRUE, network |-> network, verified |-> verified, txId |-> txId,
   payerAddress |-> payerAddress, tokenType |-> tokenType, amount |-> amount]

NoContext ==
  [attached |-> FALSE, network |-> Undef, verified |-> FALSE, txId |-> Undef,
   payerAddress |-> Undef, tokenType |-> Undef, amount |-> Undef]

Hdrs(paymentResponse, payerAddress) ==
  [paymentResponse |-> paymentResponse, payerAddress |-> payerAddress]

NoHdrs == Hdrs(NoBody, Undef)

After(act, rsp, ctx, hd) == [act |-> act, resp |-> rsp, ctx |-> ctx, hdrs |-> hd]

\* !settleResult.success
NotSuccess(body) == body.success # "true"

\* AfterSettle with the context's txId taken from the client's proof instead of
\* the facilitator's transaction.
AfterSettleTxFromProof(result, call) ==
  IF result.threw \/ result.body.kind = "null" THEN
    After("respond",
          Resp(502, "Payment verification failed", "FACILITATOR_ERROR", Undef, <<>>),
          NoContext, NoHdrs)
  ELSE IF NotSuccess(result.body) THEN
    After("respond",
          Resp(402, "Payment invalid", "PAYMENT_INVALID", result.body.errorReason, <<>>),
          NoContext, NoHdrs)
  ELSE
    After("next", NoResp,
          Context("stacks", TRUE, call.proof, result.body.payer,
                  call.tokenType, call.amount),
          Hdrs(result.body, result.body.payer))

\* The try block of stacksPaymentMiddleware after the await, and its catch.
\* The same code follows settlePayment in the legacy middleware.
AfterSettle(result, call) ==
  IF result.threw THEN
    After("respond",
          Resp(502, "Payment verification failed", "FACILITATOR_ERROR", result.message, <<>>),
          NoContext, NoHdrs)
  ELSE IF result.body.kind = "null" THEN
    After("respond",
          Resp(502, "Payment verification failed", "FACILITATOR_ERROR",
               "Cannot read properties of null", <<>>),
          NoContext, NoHdrs)
  ELSE IF NotSuccess(result.body) THEN
    After("respond",
          Resp(402, "Payment invalid", "PAYMENT_INVALID", result.body.errorReason, <<>>),
          NoContext, NoHdrs)
  ELSE
    After("next", NoResp,
          Context("stacks", TRUE, result.body.transaction, result.body.payer,
                  call.tokenType, call.amount),
          Hdrs(result.body, result.body.payer))

\* res.json(createWeatherResponse(...)) of the resource handler
ResourceResp == Resp(200, "", Undef, Undef, <<>>)

\* What the framework sends when an exception leaves an async handler: Hono's
\* error handler answers 500; Express either forwards the rejection to its
\* error handler (500) or leaves the request without a response.
EscapeResponses(srv) ==
  IF srv.framework = "hono" THEN {Resp(500, "Internal Server Error", Undef, Undef, <<>>)}
  ELSE {NoResp, Resp(500, "Internal Server Error", Undef, Undef, <<>>)}

\* GET /weather of the Hono server awaits the middleware and drops the
\* Response it returns; when no verified context was captured the handler
\* returns undefined and the framework answers for it.
HonoDropsResponse(srv, rq) ==
  /\ srv.framework = "hono"
  /\ srv.proto = "v2"
  /\ rq.route = "/weather"
  /\ ~Falsy(rq.sig)
  /\ CrossChainRoute(rq.sig) = "stacks"

HonoFallbackResponses ==
  { Resp(500, "Internal Server Error", Undef, Undef, <<>>),
    Resp(404, "Not Found", Undef, Undef, <<>>) }

\* The responses a middleware error response can end up as.
Delivered(srv, rq, rsp) ==
  IF HonoDropsResponse(srv, rq) THEN HonoFallbackResponses ELSE {rsp}

(***************************************************************************)
(* Bounded request shapes.                                                 *)
(***************************************************************************)

Obj(fields) == <<"{">> \o fields \o <<"}">>

IllegalChar == << <<"ill", "!">> >>

GoodSigA == Base64Encode(Obj(<<"ver2", "accSTX", "payA">>))

\* The header makeEvmPaymentRequest builds: base64 of {scheme, network, payload}.
EvmClientSig == Base64Encode(Obj(<<"schemeExact", "netEVM", "payEvmMock">>))

SigPool ==
  { NoHeader,
    Header(<<>>),
    Header(IllegalChar),
    Header(Base64Encode(<<"junk">>)),
    Header(Base64Encode(<<"null">>)),
    Header(Base64Encode(<<"7">>)),
    Header(Base64Encode(Obj(<<"accSTX", "payA">>))),
    Header(Base64Encode(Obj(<<"ver1", "accSTX", "payA">>))),
    Header(Base64Encode(Obj(<<"ver2", "payA">>))),
    Header(Base64Encode(Obj(<<"ver2", "accSTX">>))),
    Header(GoodSigA),
    Header(Base64Encode(Obj(<<"ver2", "accSTX", "payB">>))),
    Header(Base64Encode(Obj(<<"ver2", "accSBTC", "payA">>))),
    Header(Base64Encode(Obj(<<"ver2", "accNoTok", "payA">>))),
    Header(Base64Encode(Obj(<<"ver2", "accDOGE", "payA">>))),
    Header(Base64Encode(Obj(<<"ver2", "accEVM", "payA">>))),
    Header(Base64Encode(Obj(<<"ver2", "accSOL", "payA">>))),
    Header(Base64Encode(Obj(<<"ver2", "accNoNet", "payA">>))),
    Header(IllegalChar \o GoodSigA),
    Header(GoodSigA \o IllegalChar),
    Header(EvmClientSig) }

XPaymentPool ==
  { NoXPayment, XPayment(TRUE, FALSE, "txA"), XPayment(FALSE, TRUE, "txA"),
    XPayment(FALSE, FALSE, "txA") }

TokenHeaderPool == {Undef, "STX", "sBTC", "DOGE"}

Request(route, sig, xpay, tok) ==
  [route |-> route, sig |-> sig, xpay |-> xpay, tok |-> tok]

NoRequest == Request("none", NoHeader, NoXPayment, Undef)

\* v2 clients send Payment-Signature; X-PAYMENT is read by the EVM middleware only.
RequestPool(srv) ==
  IF srv.proto = "v2" THEN
    { Request(route, sig, NoXPayment, Undef) : route \in Routes, sig \in SigPool }
    \cup { Request("/evm/weather", NoHeader, XPayment(TRUE, FALSE, "txA"), Undef) }
  ELSE
    { Request(route, sig, xpay, tok) :
        route \in Routes, sig \in {NoHeader, Header(GoodSigA)},
        xpay \in XPaymentPool, tok \in TokenHeaderPool }

(***************************************************************************)
(* Console output.                                                         *)
(***************************************************************************)

\* One console line: its fixed text, the request header whose first 20
\* characters are interpolated into it ("none": no header value), and the
\* facilitator data or error message printed with it.
LogLine(text, header, data) == [text |-> text, header |-> header, data |-> data]

\* req.header("payment-signature") || req.header("x-payment") in the Express
\* router, c.req.header("x-payment") || c.req.header("payment-signature") in Hono
EvmPaymentHeader(srv, rq) ==
  IF srv.framework = "express"
  THEN IF ~Falsy(rq.sig) THEN "payment-signature" ELSE "x-payment"
  ELSE IF rq.xpay.present THEN "x-payment" ELSE "payment-signature"

\* console.log(`[EVM] Payment received: ${paymentHeader.substring(0, 20)}...`)
HandleLogs(srv, rq, out) ==
  IF rq.route = "/evm/weather" /\ out.act = "handler"
  THEN << LogLine("[EVM] Payment received", EvmPaymentHeader(srv, rq), Undef) >>
  ELSE <<>>

\* The console lines of stacksPaymentMiddleware after the await.
SettleLogs(result) ==
  IF result.threw THEN
    << LogLine("Payment verification error", "none", result.message) >>
  ELSE IF result.body.kind = "null" THEN
    << LogLine("Payment verification error", "none", "Cannot read properties of null") >>
  ELSE IF NotSuccess(result.body) THEN
    << LogLine("Payment invalid", "none", result.body.errorReason) >>
  ELSE << LogLine("Payment verified", "none", result.body.transaction) >>

(***************************************************************************)
(* State.                                                                  *)
(***************************************************************************)

\* The options of the routes of the servers: amount 1000n, default tokens.
DefaultOptions == [amount |-> 1000, acceptTokens |-> DEFAULT_ACCEPTED_TOKENS]

Payload(x402Version, resource, accepted, payload) ==
  [kind |-> "object", x402Version |-> x402Version, resource |-> resource,
   accepted |-> accepted, payload |-> payload]

\* No payload built yet, nothing encoded, nothing decoded.
NoClient ==
  [step |-> "idle", payload |-> Payload(Undef, Undef, Undef, Undef),
   header |-> <<>>, decoded |-> Payload(Undef, Undef, Undef, Undef),
   endpoint |-> "none", tokenType |-> "STX", signer |-> FALSE,
   requests |-> 0, proofsSent |-> 0, status |-> 0, offer |-> <<>>]

VARIABLES
  server,        \* the deployment: framework and protocol generation
  stacksConfig,  \* the process-wide Stacks configuration
  pc,            \* per request: idle, received, pending, replied, done
  req,           \* per request: route and headers
  resp,          \* per request: the response sent (status 0: none)
  x402,          \* per request: the PaymentContext attached to the request
  hdrs,          \* per request: the evidence headers set on the response
  runs,          \* per request: how many times the resource handler ran
  calls,         \* per request: the settle calls issued, in order
  reply,         \* per request: the outcome of the settle call
  escaped,       \* per request: an exception left the handler
  settled,       \* the proofs the facilitator has settled
  logs,          \* per request: the lines the server wrote to the console
  options,       \* StacksPaymentOptions of a route built with the middleware factory
  client         \* the client's payload, its encoded header, and what decoding it gives

vars == <<server, stacksConfig, pc, req, resp, x402, hdrs, runs, calls, reply,
          escaped, settled, logs, options, client>>

Init ==
  /\ server \in Deployments
  /\ stacksConfig \in StacksConfigs
  /\ pc = [r \in Reqs |-> "idle"]
  /\ req = [r \in Reqs |-> NoRequest]
  /\ resp = [r \in Reqs |-> NoResp]
  /\ x402 = [r \in Reqs |-> NoContext]
  /\ hdrs = [r \in Reqs |-> NoHdrs]
  /\ runs = [r \in Reqs |-> 0]
  /\ calls = [r \in Reqs |-> <<>>]
  /\ reply = [r \in Reqs |-> NoReply]
  /\ escaped = [r \in Reqs |-> FALSE]
  /\ settled = {}
  /\ logs = [r \in Reqs |-> <<>>]
  /\ options = DefaultOptions
  /\ client = NoClient

\* A request reaches the server.  Request 1 has any shape of the pool; each
\* further request is a replay of it (same route, same headers).
Arrive(r) ==
  /\ pc[r] = "idle"
  /\ IF r = 1 THEN \E rq \in RequestPool(server) : req' = [req EXCEPT ![r] = rq]
     ELSE /\ pc[r - 1] # "idle"
          /\ req' = [req EXCEPT ![r] = req[1]]
  /\ pc' = [pc EXCEPT ![r] = "received"]
  /\ UNCHANGED <<logs, options, client, server, stacksConfig, resp, x402, hdrs, runs, calls, reply,
                 escaped, settled>>

\* Another request has already submitted this proof.
SeenElsewhere(r, proof) ==
  \E q \in Reqs \ {r} : \E i \in 1..Len(calls[q]) : calls[q][i].proof = proof

\* Handle with a process-wide cache of submitted proofs: a proof another
\* request has submitted is refused without a settle call.
HandleSharedCache(r) ==
  /\ pc[r] = "received"
  /\ LET out == Dispatch(server, stacksConfig, req[r]) IN
     CASE out.act = "respond" ->
            /\ \E rsp \in Delivered(server, req[r], out.resp) :
                 resp' = [resp EXCEPT ![r] = rsp]
            /\ pc' = [pc EXCEPT ![r] = "done"]
            /\ UNCHANGED <<x402, runs, calls, escaped>>
       [] out.act = "settle" /\ SeenElsewhere(r, out.call.proof) ->
            /\ resp' = [resp EXCEPT ![r] =
                          Resp(402, "Payment invalid", "PAYMENT_INVALID", "duplicate", <<>>)]
            /\ pc' = [pc EXCEPT ![r] = "done"]
            /\ UNCHANGED <<x402, runs, calls, escaped>>
       [] out.act = "settle" /\ ~SeenElsewhere(r, out.call.proof) ->
            /\ calls' = [calls EXCEPT ![r] = Append(@, out.call)]
            /\ pc' = [pc EXCEPT ![r] = "pending"]
            /\ UNCHANGED <<resp, x402, runs, escaped>>
       [] out.act = "throw" ->
            /\ \E rsp \in EscapeResponses(server) : resp' = [resp EXCEPT ![r] = rsp]
            /\ escaped' = [escaped EXCEPT ![r] = TRUE]
            /\ pc' = [pc EXCEPT ![r] = "done"]
            /\ UNCHANGED <<x402, runs, calls>>
       [] out.act = "handler" ->
            /\ x402' = [x402 EXCEPT ![r] =
                          IF req[r].route = "/evm/weather"
                          THEN Context("evm", TRUE, Undef, Undef, Undef, Undef)
                          ELSE @]
            /\ runs' = [runs EXCEPT ![r] = @ + 1]
            /\ resp' = [resp EXCEPT ![r] = ResourceResp]
            /\ pc' = [pc EXCEPT ![r] = "done"]
            /\ UNCHANGED <<calls, escaped>>
  /\ logs' = [logs EXCEPT ![r] =
                @ \o HandleLogs(server, req[r], Dispatch(server, stacksConfig, req[r]))]
  /\ UNCHANGED <<options, client, server, stacksConfig, req, hdrs, reply, settled>>

\* The route handler runs up to its first await.
Handle(r) ==
  /\ pc[r] = "received"
  /\ LET out == Dispatch(server, stacksConfig, req[r]) IN
     CASE out.act = "respond" ->
            /\ \E rsp \in Delivered(server, req[r], out.resp) :
                 resp' = [resp EXCEPT ![r] = rsp]
            /\ pc' = [pc EXCEPT ![r] = "done"]
            /\ UNCHANGED <<x402, runs, calls, escaped>>
       [] out.act = "settle" ->
            /\ calls' = [calls EXCEPT ![r] = Append(@, out.call)]
            /\ pc' = [pc EXCEPT ![r] = "pending"]
            /\ UNCHANGED <<resp, x402, runs, escaped>>
       [] out.act = "throw" ->
            /\ \E rsp \in EscapeResponses(server) : resp' = [resp EXCEPT ![r] = rsp]
            /\ escaped' = [escaped EXCEPT ![r] = TRUE]
            /\ pc' = [pc EXCEPT ![r] = "done"]
            /\ UNCHANGED <<x402, runs, calls>>
       [] out.act = "handler" ->
            /\ x402' = [x402 EXCEPT ![r] =
                          IF req[r].route = "/evm/weather"
                          THEN Context("evm", TRUE, Undef, Undef, Undef, Undef)
                          ELSE @]
            /\ runs' = [runs EXCEPT ![r] = @ + 1]
            /\ resp' = [resp EXCEPT ![r] = ResourceResp]
            /\ pc' = [pc EXCEPT ![r] = "done"]
            /\ UNCHANGED <<calls, escaped>>
  /\ logs' = [logs EXCEPT ![r] =
                @ \o HandleLogs(server, req[r], Dispatch(server, stacksConfig, req[r]))]
  /\ UNCHANGED <<options, client, server, stacksConfig, req, hdrs, reply, settled>>

\* FacilitatorReply in which a second reply is delivered to a request that has
\* already been answered, and its continuation runs again.
FacilitatorReplyAgain(r) ==
  /\ pc[r] \in {"pending", "done"}
  /\ Len(calls[r]) > 0
  /\ LET proof == calls[r][Len(calls[r])].proof IN
     \E kind \in ReplyKinds, didSettle \in BOOLEAN, payer \in {Undef, "SP_PAYER"} :
        /\ server.proto = "legacy" => kind \in {"success", "rejected", "neterr"}
        /\ kind = "success" => didSettle /\ proof \in Proofs
        /\ kind = "rejected" => ~didSettle
        /\ didSettle => proof \in Proofs
        /\ kind # "success" => payer = Undef
        /\ reply' = [reply EXCEPT ![r] = Reply(kind, didSettle, payer)]
        /\ settled' = IF didSettle THEN settled \cup {proof} ELSE settled
  /\ pc' = [pc EXCEPT ![r] = "replied"]
  /\ UNCHANGED <<logs, options, client, server, stacksConfig, req, resp, x402, hdrs, runs, calls, escaped>>

\* The facilitator (or the network) answers the settle call of request r.
FacilitatorReply(r) ==
  /\ pc[r] = "pending"
  /\ LET proof == calls[r][Len(calls[r])].proof IN
     \E kind \in ReplyKinds, didSettle \in BOOLEAN, payer \in {Undef, "SP_PAYER"} :
        /\ server.proto = "legacy" => kind \in {"success", "rejected", "neterr"}
        /\ kind = "success" => didSettle /\ proof \in Proofs
        /\ kind = "rejected" => ~didSettle
        /\ didSettle => proof \in Proofs
        /\ kind # "success" => payer = Undef
        /\ reply' = [reply EXCEPT ![r] = Reply(kind, didSettle, payer)]
        /\ settled' = IF didSettle THEN settled \cup {proof} ELSE settled
  /\ pc' = [pc EXCEPT ![r] = "replied"]
  /\ UNCHANGED <<logs, options, client, server, stacksConfig, req, resp, x402, hdrs, runs, calls, escaped>>

\* Resume that submits the proof a second time when the first settle call
\* failed or was refused.
ResumeRetry(r) ==
  /\ pc[r] = "replied"
  /\ LET call == calls[r][Len(calls[r])]
         result == IF server.proto = "v2"
                   THEN settleWithFacilitatorV2(reply[r], call.proof)
                   ELSE settlePayment(reply[r], call.proof)
         aft == AfterSettle(result, call)
     IN  /\ CASE aft.act = "respond" ->
                  /\ \E rsp \in Delivered(server, req[r], aft.resp) :
                       resp' = [resp EXCEPT ![r] = rsp]
                  /\ UNCHANGED <<x402, hdrs, runs>>
             [] aft.act = "next" ->
                  /\ x402' = [x402 EXCEPT ![r] = aft.ctx]
                  /\ hdrs' = [hdrs EXCEPT ![r] = aft.hdrs]
                  /\ runs' = [runs EXCEPT ![r] = @ + 1]
                  /\ resp' = [resp EXCEPT ![r] = ResourceResp]
         /\ logs' = [logs EXCEPT ![r] = @ \o SettleLogs(result)]
         /\ IF aft.act = "respond" /\ Len(calls[r]) < 2
            THEN /\ calls' = [calls EXCEPT ![r] = Append(@, call)]
                 /\ pc' = [pc EXCEPT ![r] = "pending"]
            ELSE /\ pc' = [pc EXCEPT ![r] = "done"]
                 /\ UNCHANGED calls
  /\ UNCHANGED <<options, client, server, stacksConfig, req, reply, escaped, settled>>

\* The middleware resumes after the await.
Resume(r) ==
  /\ pc[r] = "replied"
  /\ LET call == calls[r][Len(calls[r])]
         result == IF server.proto = "v2"
                   THEN settleWithFacilitatorV2(reply[r], call.proof)
                   ELSE settlePayment(reply[r], call.proof)
         aft == AfterSettle(result, call)
     IN  /\ CASE aft.act = "respond" ->
                  /\ \E rsp \in Delivered(server, req[r], aft.resp) :
                       resp' = [resp EXCEPT ![r] = rsp]
                  /\ UNCHANGED <<x402, hdrs, runs>>
             [] aft.act = "next" ->
                  /\ x402' = [x402 EXCEPT ![r] = aft.ctx]
                  /\ hdrs' = [hdrs EXCEPT ![r] = aft.hdrs]
                  /\ runs' = [runs EXCEPT ![r] = @ + 1]
                  /\ resp' = [resp EXCEPT ![r] = ResourceResp]
         /\ logs' = [logs EXCEPT ![r] = @ \o SettleLogs(result)]
  /\ pc' = [pc EXCEPT ![r] = "done"]
  /\ UNCHANGED <<options, client, server, stacksConfig, req, calls, reply, escaped, settled>>

Next == \E r \in Reqs : Arrive(r) \/ Handle(r) \/ FacilitatorReply(r) \/ Resume(r)

Spec == Init /\ [][Next]_vars

\* The event loop runs every handler and every continuation that is ready;
\* nothing obliges the facilitator to answer.
FairSpec == Spec /\ \A r \in Reqs : WF_vars(Handle(r)) /\ WF_vars(Resume(r))

(***************************************************************************)
(* A route built with the middleware factory, under any configuration.     *)
(***************************************************************************)

MaxTokens == 2

TokenLists == UNION { [1..n -> {"STX", "sBTC", "USDCx"}] : n \in 0..MaxTokens }

\* amount is a bigint: the type admits zero and negative values.
AmountPool == {-1, 0, 1, 1000}

\* The options stacksPaymentMiddleware(options) can be called with.
FactoryOptions == [amount : AmountPool, acceptTokens : TokenLists]

\* process.env.STACKS_NETWORK || "testnet", process.env.SERVER_ADDRESS_STACKS || "",
\* process.env.STACKS_FACILITATOR_URL || the default URL
EnvStacksConfigs ==
  [network : {"mainnet", "testnet"}, payTo : {"", "ST_SERVER"},
   facilitatorUrl : {"https://facilitator"}]

FactoryRequestPool(srv) ==
  IF srv.proto = "v2" THEN
    { Request(route, sig, NoXPayment, Undef) :
        route \in {"/api/data", "/weather"}, sig \in {NoHeader, Header(<<>>)} }
    \cup { Request("/api/data", Header(GoodSigA), NoXPayment, Undef) }
  ELSE
    { Request(route, NoHeader, NoXPayment, tok) :
        route \in {"/api/data", "/weather"}, tok \in {Undef, "sBTC", "USDCx"} }
    \cup { Request("/api/data", NoHeader, XPayment(TRUE, FALSE, "txA"), Undef) }

\* app.get("/api/data", stacksPaymentMiddleware(options), handler)
FactoryRoute(srv, cfg, opts, rq) ==
  IF rq.route = "/api/data" THEN
    IF srv.proto = "v2"
    THEN StacksMiddlewareV2(cfg, opts.amount, opts.acceptTokens, rq.sig)
    ELSE StacksMiddlewareLegacy(cfg, opts.amount, opts.acceptTokens, rq.xpay, rq.tok)
  ELSE Dispatch(srv, cfg, rq)

\* The process starts with whatever the environment holds, and the route is
\* built with whatever options the factory is given.
FactoryInit ==
  /\ server \in Deployments
  /\ stacksConfig \in EnvStacksConfigs
  /\ options \in FactoryOptions
  /\ pc = [r \in Reqs |-> "idle"]
  /\ req = [r \in Reqs |-> NoRequest]
  /\ resp = [r \in Reqs |-> NoResp]
  /\ x402 = [r \in Reqs |-> NoContext]
  /\ hdrs = [r \in Reqs |-> NoHdrs]
  /\ runs = [r \in Reqs |-> 0]
  /\ calls = [r \in Reqs |-> <<>>]
  /\ reply = [r \in Reqs |-> NoReply]
  /\ escaped = [r \in Reqs |-> FALSE]
  /\ settled = {}
  /\ logs = [r \in Reqs |-> <<>>]
  /\ client = NoClient

FactoryArrive(r) ==
  /\ pc[r] = "idle"
  /\ \E rq \in FactoryRequestPool(server) : req' = [req EXCEPT ![r] = rq]
  /\ pc' = [pc EXCEPT ![r] = "received"]
  /\ UNCHANGED <<logs, options, client, server, stacksConfig, resp, x402, hdrs, runs, calls, reply,
                 escaped, settled>>

\* The middleware of the route runs up to its first await.
FactoryHandle(r) ==
  /\ pc[r] = "received"
  /\ LET out == FactoryRoute(server, stacksConfig, options, req[r]) IN
     CASE out.act = "respond" ->
            /\ \E rsp \in Delivered(server, req[r], out.resp) :
                 resp' = [resp EXCEPT ![r] = rsp]
            /\ pc' = [pc EXCEPT ![r] = "done"]
            /\ UNCHANGED calls
       [] out.act = "settle" ->
            /\ calls' = [calls EXCEPT ![r] = Append(@, out.call)]
            /\ pc' = [pc EXCEPT ![r] = "pending"]
            /\ UNCHANGED resp
  /\ UNCHANGED <<logs, options, client, server, stacksConfig, req, x402, hdrs, runs, reply,
                 escaped, settled>>

FactoryNext == FactoryArrive(1) \/ FactoryHandle(1) \/ FacilitatorReply(1) \/ Resume(1)

FactorySpec == FactoryInit /\ [][FactoryNext]_vars

(***************************************************************************)
(* The client side of the header codec.                                    *)
(***************************************************************************)

\* The payloads a client can build: protocol version, resource descriptor,
\* accepted requirement, proof payload.
Payloads ==
  { Payload(v, res, acc, proof) :
      v \in {"1", "2"}, res \in {"/weather", "/api/data"},
      acc \in DOMAIN AcceptedPool, proof \in Proofs }

CodecInit ==
  /\ server \in {[framework |-> "express", proto |-> "v2"]}
  /\ stacksConfig \in StacksConfigs
  /\ options = DefaultOptions
  /\ pc = [r \in Reqs |-> "idle"]
  /\ req = [r \in Reqs |-> NoRequest]
  /\ resp = [r \in Reqs |-> NoResp]
  /\ x402 = [r \in Reqs |-> NoContext]
  /\ hdrs = [r \in Reqs |-> NoHdrs]
  /\ runs = [r \in Reqs |-> 0]
  /\ calls = [r \in Reqs |-> <<>>]
  /\ reply = [r \in Reqs |-> NoReply]
  /\ escaped = [r \in Reqs |-> FALSE]
  /\ settled = {}
  /\ logs = [r \in Reqs |-> <<>>]
  /\ client = NoClient

BuildPayload ==
  /\ client.step = "idle"
  /\ \E p \in Payloads : client' = [client EXCEPT !.step = "built", !.payload = p]
  /\ UNCHANGED <<logs, options, server, stacksConfig, pc, req, resp, x402, hdrs, runs, calls,
                 reply, escaped, settled>>

EncodeHeader ==
  /\ client.step = "built"
  /\ client' = [client EXCEPT !.step = "encoded",
                              !.header = encodePaymentSignature(client.payload)]
  /\ UNCHANGED <<logs, options, server, stacksConfig, pc, req, resp, x402, hdrs, runs, calls,
                 reply, escaped, settled>>

DecodeHeader ==
  /\ client.step = "encoded"
  /\ client' = [client EXCEPT !.step = "decoded",
                              !.decoded = decodePaymentSignature(client.header)]
  /\ UNCHANGED <<logs, options, server, stacksConfig, pc, req, resp, x402, hdrs, runs, calls,
                 reply, escaped, settled>>

CodecNext == BuildPayload \/ EncodeHeader \/ DecodeHeader

CodecSpec == CodecInit /\ [][CodecNext]_vars

(***************************************************************************)
(* The cross-chain endpoint under independent requests.                    *)
(***************************************************************************)

CrossChainRequestPool ==
  { Request("/weather", sig, NoXPayment, Undef) : sig \in SigPool }

RouterInit ==
  /\ server \in { d \in Deployments : d.proto = "v2" }
  /\ stacksConfig \in StacksConfigs
  /\ options = DefaultOptions
  /\ pc = [r \in Reqs |-> "idle"]
  /\ req = [r \in Reqs |-> NoRequest]
  /\ resp = [r \in Reqs |-> NoResp]
  /\ x402 = [r \in Reqs |-> NoContext]
  /\ hdrs = [r \in Reqs |-> NoHdrs]
  /\ runs = [r \in Reqs |-> 0]
  /\ calls = [r \in Reqs |-> <<>>]
  /\ reply = [r \in Reqs |-> NoReply]
  /\ escaped = [r \in Reqs |-> FALSE]
  /\ settled = {}
  /\ logs = [r \in Reqs |-> <<>>]
  /\ client = NoClient

\* Any request reaches GET /weather, in any order, each with its own header.
RouterArrive(r) ==
  /\ pc[r] = "idle"
  /\ \E rq \in CrossChainRequestPool : req' = [req EXCEPT ![r] = rq]
  /\ pc' = [pc EXCEPT ![r] = "received"]
  /\ UNCHANGED <<logs, options, client, server, stacksConfig, resp, x402, hdrs, runs, calls,
                 reply, escaped, settled>>

RouterNext == \E r \in Reqs : RouterArrive(r) \/ Handle(r)

RouterSpec == RouterInit /\ [][RouterNext]_vars

(***************************************************************************)
(* Payloads that differ in the terms the client claims.                    *)
(***************************************************************************)

\* Structured proofs for the STX and sBTC options, with the advertised terms
\* or with another accepted.amount or accepted.payTo.
TermsSigPool ==
  { Header(Base64Encode(Obj(<<"ver2", acc, "payA">>))) :
      acc \in {"accSTX", "accSTXAmount", "accSTXPayTo", "accSBTC"} }

TermsRequestPool ==
  { Request(route, sig, NoXPayment, Undef) :
      route \in {"/stacks/weather", "/stacks/ai/complete", "/weather"},
      sig \in TermsSigPool }

\* Any request reaches a paid route, in any order, each with its own proof.
TermsArrive(r) ==
  /\ pc[r] = "idle"
  /\ \E rq \in TermsRequestPool : req' = [req EXCEPT ![r] = rq]
  /\ pc' = [pc EXCEPT ![r] = "received"]
  /\ UNCHANGED <<logs, options, client, server, stacksConfig, resp, x402, hdrs, runs, calls,
                 reply, escaped, settled>>

TermsNext == \E r \in Reqs : TermsArrive(r) \/ Handle(r)

TermsSpec == RouterInit /\ [][TermsNext]_vars

(***************************************************************************)
(* The legacy (X-PAYMENT) middleware on its own routes, Express and Hono.  *)
(***************************************************************************)

LegacyDeployments ==
  { [framework |-> "express", proto |-> "legacy"],
    [framework |-> "hono",    proto |-> "legacy"] }

\* With or without a proof, with any X-PAYMENT-TOKEN-TYPE header (absent,
\* empty, accepted, unknown).
LegacyRequestPool ==
  { Request(route, NoHeader, xpay, tok) :
      route \in {"/stacks/weather", "/stacks/ai/complete"},
      xpay \in {NoXPayment, XPayment(TRUE, FALSE, "txA")},
      tok \in TokenHeaderPool \cup {""} }

LegacyInit ==
  /\ server \in LegacyDeployments
  /\ stacksConfig \in StacksConfigs
  /\ options = DefaultOptions
  /\ pc = [r \in Reqs |-> "idle"]
  /\ req = [r \in Reqs |-> NoRequest]
  /\ resp = [r \in Reqs |-> NoResp]
  /\ x402 = [r \in Reqs |-> NoContext]
  /\ hdrs = [r \in Reqs |-> NoHdrs]
  /\ runs = [r \in Reqs |-> 0]
  /\ calls = [r \in Reqs |-> <<>>]
  /\ reply = [r \in Reqs |-> NoReply]
  /\ escaped = [r \in Reqs |-> FALSE]
  /\ settled = {}
  /\ logs = [r \in Reqs |-> <<>>]
  /\ client = NoClient

LegacyArrive(r) ==
  /\ pc[r] = "idle"
  /\ \E rq \in LegacyRequestPool : req' = [req EXCEPT ![r] = rq]
  /\ pc' = [pc EXCEPT ![r] = "received"]
  /\ UNCHANGED <<logs, options, client, server, stacksConfig, resp, x402, hdrs, runs, calls,
                 reply, escaped, settled>>

LegacyNext == \E r \in Reqs : LegacyArrive(r) \/ Handle(r)

LegacySpec == LegacyInit /\ [][LegacyNext]_vars

(***************************************************************************)
(* makeStacksPaymentRequest: one run of the client.                        *)
(***************************************************************************)

\* The requirement lists a 402 body can offer the client.
OfferPool(cfg) ==
  { build402ResponseV2(cfg, 1000, DEFAULT_ACCEPTED_TOKENS),
    CrossChainAcceptsV2(cfg),
    EvmAccepts([framework |-> "hono", proto |-> "v2"], "1000"),
    << Requirement(STACKS_NETWORK_IDS[cfg.network], <<"STX">>, "1000", cfg.payTo,
                   cfg.facilitatorUrl, Undef) >>,
    <<>> }

\* findStacksOption that takes the first option on a stacks: network,
\* whatever its token type.
findStacksOptionAnyToken(accepts, tokenType) ==
  LET hits == { i \in 1..Len(accepts) : StartsWithStacks(accepts[i].network) }
  IN  IF hits = {} THEN 0 ELSE CHOOSE i \in hits : \A j \in hits : i <= j

\* findStacksOption: the index of the first option on a stacks: network whose
\* token type (STX when absent) is tokenType; 0 when there is none.
findStacksOption(accepts, tokenType) ==
  LET hits == { i \in 1..Len(accepts) :
                  /\ StartsWithStacks(accepts[i].network)
                  /\ (IF accepts[i].tokenType = Undef THEN "STX"
                      ELSE accepts[i].tokenType) = tokenType }
  IN  IF hits = {} THEN 0 ELSE CHOOSE i \in hits : \A j \in hits : i <= j

\* accepted: stacksOption.  The selected option, as it stands in the payload.
AcceptedName(option) ==
  CHOOSE name \in DOMAIN AcceptedPool :
    /\ AcceptedPool[name].network = option.network
    /\ AcceptedPool[name].asset = option.asset
    /\ AcceptedPool[name].amount = option.amount
    /\ AcceptedPool[name].payTo = option.payTo
    /\ AcceptedPool[name].tokenType = option.tokenType

ClientTerminal == {"returned", "threw"}

ClientInit ==
  /\ server \in {[framework |-> "express", proto |-> "v2"]}
  /\ stacksConfig \in StacksConfigs
  /\ options = DefaultOptions
  /\ pc = [r \in Reqs |-> "idle"]
  /\ req = [r \in Reqs |-> NoRequest]
  /\ resp = [r \in Reqs |-> NoResp]
  /\ x402 = [r \in Reqs |-> NoContext]
  /\ hdrs = [r \in Reqs |-> NoHdrs]
  /\ runs = [r \in Reqs |-> 0]
  /\ calls = [r \in Reqs |-> <<>>]
  /\ reply = [r \in Reqs |-> NoReply]
  /\ escaped = [r \in Reqs |-> FALSE]
  /\ settled = {}
  /\ logs = [r \in Reqs |-> <<>>]
  /\ client \in { [NoClient EXCEPT !.endpoint = e, !.tokenType = t, !.signer = k] :
                    e \in {"/weather", "/api/data"},
                    t \in {"STX", "sBTC", "USDCx"}, k \in BOOLEAN }

ServerUnchanged ==
  UNCHANGED <<logs, options, server, stacksConfig, pc, req, resp, x402, hdrs, runs, calls,
              reply, escaped, settled>>

\* Step 1: the initial fetch, without a proof.
ClientInitialRequest ==
  /\ client.step = "idle"
  /\ client' = [client EXCEPT !.step = "awaiting-initial", !.requests = @ + 1]
  /\ ServerUnchanged

\* The initial fetch settles: any status other than 402 is returned as it is;
\* a 402 without a matching Stacks option, or without a configured signer,
\* ends the run; a rejected fetch throws out of the function.
ClientInitialResponse ==
  /\ client.step = "awaiting-initial"
  /\ \/ client' = [client EXCEPT !.step = "threw"]
     \/ \E status \in {200, 404, 500} :
          client' = [client EXCEPT !.step = "returned", !.status = status]
     \/ \E accepts \in OfferPool(stacksConfig) :
          IF findStacksOption(accepts, client.tokenType) = 0 \/ ~client.signer
          THEN client' = [client EXCEPT !.step = "returned", !.status = 402,
                                       !.offer = accepts]
          ELSE client' = [client EXCEPT !.step = "signing", !.status = 402,
                                       !.offer = accepts]
  /\ ServerUnchanged

\* signPayment, the payload and its base64 encoding; signPayment may throw.
ClientSign ==
  /\ client.step = "signing"
  /\ \/ client' = [client EXCEPT !.step = "threw"]
     \/ \E proof \in Proofs :
          LET stacksOption ==
                client.offer[findStacksOption(client.offer, client.tokenType)]
              p == Payload("2", client.endpoint, AcceptedName(stacksOption), proof)
          IN  client' = [client EXCEPT !.step = "signed", !.payload = p,
                                      !.header = encodePaymentSignature(p)]
  /\ ServerUnchanged

\* Step 3: the retry with the Payment-Signature header.
ClientPaidRequest ==
  /\ client.step = "signed"
  /\ client' = [client EXCEPT !.step = "awaiting-paid", !.requests = @ + 1,
                              !.proofsSent = @ + 1]
  /\ ServerUnchanged

\* ClientPaidResponse that signs and sends again after a 402 or a 502.
ClientPaidResponseRetry ==
  /\ client.step = "awaiting-paid"
  /\ \/ client' = [client EXCEPT !.step = "threw"]
     \/ \E status \in {200, 400} :
          client' = [client EXCEPT !.step = "returned", !.status = status]
     \/ \E status \in {402, 502} :
          client' = [client EXCEPT !.step = "signing", !.status = status]
  /\ ServerUnchanged

\* The paid fetch settles: the body is returned whatever the status; a
\* rejected fetch is rethrown by the catch block.
ClientPaidResponse ==
  /\ client.step = "awaiting-paid"
  /\ \/ client' = [client EXCEPT !.step = "threw"]
     \/ \E status \in {200, 400, 402, 502} :
          client' = [client EXCEPT !.step = "returned", !.status = status]
  /\ ServerUnchanged

ClientNext ==
  \/ ClientInitialRequest \/ ClientInitialResponse \/ ClientSign
  \/ ClientPaidRequest \/ ClientPaidResponse

ClientSpec == ClientInit /\ [][ClientNext]_vars

\* The client's own steps run when they can; nothing obliges the server to
\* answer a fetch.
FairClientSpec ==
  ClientSpec /\ WF_vars(ClientInitialRequest) /\ WF_vars(ClientSign)
             /\ WF_vars(ClientPaidRequest)

TypeOK ==
  /\ \A r \in Reqs : pc[r] \in {"idle", "received", "pending", "replied", "done"}
  /\ \A r \in Reqs : resp[r].status \in {0, 200, 400, 402, 404, 500, 502}
  /\ \A r \in Reqs : Len(calls[r]) <= 1
  /\ settled \subseteq Proofs

(***************************************************************************)
(* Vocabulary of the properties.                                           *)
(***************************************************************************)

\* The settle call of request r, when one was issued.
SettleCallOf(r) == calls[r][Len(calls[r])]

\* The decoded Payment-Signature of request r (v2), for a non-empty header.
DecodedOf(r) == decodePaymentSignature(req[r].sig.val)

\* The token type request r selects: payload.accepted.extra.tokenType (v2) or
\* the X-PAYMENT-TOKEN-TYPE header (legacy), STX by default.
SelectedToken(r) ==
  IF server.proto = "v2"
  THEN LET t == AcceptedPool[DecodedOf(r).accepted].tokenType
       IN  IF t = Undef THEN "STX" ELSE t
  ELSE IF req[r].tok = Undef THEN "STX" ELSE req[r].tok

\* Request r carries a structured proof with an accepted requirement.
HasAccepted(r) ==
  /\ server.proto = "v2"
  /\ req[r].route # "none"
  /\ ~Falsy(req[r].sig)
  /\ DecodedOf(r).kind = "object"
  /\ DecodedOf(r).accepted # Undef

\* Every character of the header belongs to the base64 alphabet.
IsValidBase64(header) == \A i \in 1..Len(header) : header[i][1] = "b64"

\* The namespaces each route can verify.
SupportedNamespaces(route) ==
  IF route = "/weather" THEN {"stacks", "eip155"} ELSE {"stacks"}

(***************************************************************************)
(* Properties.                                                             *)
(***************************************************************************)

\* C1: on every payment-protected route the resource handler produces its
\* 200 response only for a request whose proof was submitted to the
\* facilitator and came back success=true, after a PaymentContext is attached.
C1_ReleaseOnlyAfterSettlement ==
  \A r \in Reqs :
    (runs[r] > 0 \/ resp[r].status = 200) =>
      /\ Len(calls[r]) >= 1
      /\ reply[r].kind = "success"
      /\ x402[r].attached

C3_RejectedEndsIn402 ==
  \A r \in Reqs :
    reply[r].kind = "rejected" =>
      /\ ~x402[r].attached
      /\ runs[r] = 0
      /\ pc[r] = "done" =>
           /\ resp[r].status = 402
           /\ resp[r].details = "invalid_transaction"

\* C4: a request whose selected token type is not in the route's
\* accepted-token set is rejected with a 400 response and no facilitator call
\* is issued for it.
C4_UnsupportedTokenRejected ==
  \A r \in Reqs :
    LET unsupported ==
          /\ req[r].route \in {"/stacks/weather", "/stacks/ai/complete", "/weather"}
          /\ server.proto = "v2" => HasAccepted(r)
          /\ ~Includes(RouteAcceptTokens(req[r].route), SelectedToken(r))
    IN  unsupported =>
          /\ calls[r] = <<>>
          /\ runs[r] = 0
          /\ pc[r] = "done" => resp[r].status = 400

\* C5: a structured proof whose accepted network id does not start with a
\* supported namespace prefix ends in an error response, with no settlement
\* call and without releasing the resource, on the cross-chain GET /weather
\* and on the Stacks-only routes.
C5_UnsupportedNetworkRejected ==
  \A r \in Reqs :
    LET network == AcceptedPool[DecodedOf(r).accepted].network
        unsupported ==
          /\ HasAccepted(r)
          /\ req[r].route \in {"/stacks/weather", "/stacks/ai/complete", "/weather"}
          /\ network # <<>>
          /\ network[1] \notin SupportedNamespaces(req[r].route)
    IN  unsupported =>
          /\ calls[r] = <<>>
          /\ runs[r] = 0
          /\ pc[r] = "done" => resp[r].status \in {400, 402}

\* C6: when two requests carry the identical encoded proof header, exactly
\* one settlement call for that proof reaches the facilitator.
C6_ReplayedProofSettledOnce ==
  \A r1 \in Reqs : \A r2 \in Reqs :
    (/\ r1 # r2
     /\ req[r1].route # "none"
     /\ ~Falsy(req[r1].sig)
     /\ req[r1].sig = req[r2].sig)
    => Len(calls[r1]) + Len(calls[r2]) <= 1

\* C7: a Payment-Signature header whose base64 portion is invalid ends in the
\* DecodeError 400 response and no facilitator call is made for it.
C7_InvalidBase64Rejected ==
  \A r \in Reqs :
    (/\ server.proto = "v2"
     /\ req[r].route \in {"/stacks/weather", "/stacks/ai/complete", "/weather"}
     /\ ~Falsy(req[r].sig)
     /\ ~IsValidBase64(req[r].sig.val))
    => /\ calls[r] = <<>>
       /\ pc[r] = "done" =>
            resp[r].status = 400 /\ resp[r].error = "Invalid Payment-Signature header"

\* C8: a Payment-Signature header that decodes to JSON lacking a required
\* field (protocol version, accepted requirement, proof payload), or to a
\* JSON value that is not an object, ends in a 400 response; no facilitator
\* call is made and no exception escapes the middleware.
C8_MissingFieldRejected ==
  \A r \in Reqs :
    LET decoded == DecodedOf(r)
        lacking ==
          /\ server.proto = "v2"
          /\ req[r].route \in {"/stacks/weather", "/stacks/ai/complete", "/weather"}
          /\ ~Falsy(req[r].sig)
          /\ ~Threw(decoded)
          /\ \/ decoded.kind # "object"
             \/ decoded.x402Version = Undef
             \/ decoded.accepted = Undef
             \/ decoded.payload = Undef
    IN  lacking =>
          /\ calls[r] = <<>>
          /\ ~escaped[r]
          /\ pc[r] = "done" => resp[r].status = 400

\* C9: a connection error, a non-2xx status or a malformed body (including a
\* 2xx JSON body without a success field) ends the request as
\* FacilitatorUnavailable with a 502 response, and only a well-formed
\* success=false ends it as PaymentInvalid with a 402 response.
C9_FailureClassesDistinguished ==
  \A r \in Reqs :
    (server.proto = "v2" /\ pc[r] = "done") =>
      /\ reply[r].kind \in {"neterr", "non2xx", "malformed", "nosuccess", "nullbody"} =>
           resp[r].status = 502 /\ resp[r].code = "FACILITATOR_ERROR"
      /\ reply[r].kind = "rejected" =>
           resp[r].status = 402 /\ resp[r].code = "PAYMENT_INVALID"
      /\ resp[r].code = "PAYMENT_INVALID" => reply[r].kind = "rejected"

\* C10: every request that reaches SettlementPending eventually receives a
\* response, even when the facilitator never answers.
C10_PendingEventuallyAnswered ==
  \A r \in Reqs : (pc[r] = "pending") ~> (pc[r] = "done" /\ resp[r].status # 0)

\* "value parses as a positive integer": the decimal string of some n >= 1.
MaxAmount == 1000

ParsesAsPositiveInteger(str) == \E n \in 1..MaxAmount : ToString(n) = str

\* The 402 bodies that list requirements (as opposed to the 402 of a rejected proof).
IsPaymentRequired(rsp) == rsp.status = 402 /\ rsp.error = "Payment Required"

\* C11: whenever the gateway answers 502 FacilitatorUnavailable, the settle
\* call of that request has not settled the proof at the facilitator, also
\* when the reply was lost, non-2xx or malformed.
C11_UnavailableMeansNotSettled ==
  \A r \in Reqs :
    (pc[r] = "done" /\ resp[r].status = 502 /\ resp[r].code = "FACILITATOR_ERROR") =>
      ~reply[r].settled

\* C12: with the pay-to address or the facilitator URL unset, no 402 body
\* lists a requirement with an empty pay-to address or facilitator URL and
\* no settle call carries an empty pay-to address.
C12_NoEmptyPayTo ==
  \A r \in Reqs :
    /\ \A i \in 1..Len(resp[r].accepts) :
         resp[r].accepts[i].payTo # "" /\ resp[r].accepts[i].facilitator # ""
    /\ \A i \in 1..Len(calls[r]) : calls[r][i].payTo # ""

\* The position of a request in its life: each step moves it forward.
PcRank(p) ==
  CASE p = "idle" -> 0 [] p = "received" -> 1 [] p = "pending" -> 2
    [] p = "replied" -> 3 [] p = "done" -> 4

\* The proof of request r decoded, has protocol version 2 (v2) and names a
\* token type the route accepts.
ProofValidated(r) ==
  IF server.proto = "v2"
  THEN /\ req[r].sig.present /\ req[r].sig.val # <<>>
       /\ DecodedOf(r).kind = "object"
       /\ DecodedOf(r).x402Version = "2"
       /\ DecodedOf(r).accepted # Undef
       /\ Includes(RouteAcceptTokens(req[r].route), SelectedToken(r))
  ELSE /\ req[r].xpay.present
       /\ Includes(RouteAcceptTokens(req[r].route), SelectedToken(r))

\* Everything the server holds about request r.
RequestState(r) == <<pc[r], req[r], resp[r], x402[r], hdrs[r], runs[r], calls[r], escaped[r]>>

\* C13: a request follows the per-request state machine: the settle call is
\* issued only after the proof was decoded and its version and token type
\* validated, a request never moves backwards, and once it is terminal it
\* makes no further transition and gets no second response.
C13_StateMachine ==
  [][\A r \in Reqs :
       /\ calls'[r] # calls[r] => pc[r] = "received" /\ ProofValidated(r)
       /\ PcRank(pc'[r]) >= PcRank(pc[r])
       /\ pc[r] = "done" => RequestState(r)' = RequestState(r)]_vars

C13_Witness ==
  /\ pc[1] = "done" /\ calls[1] # <<>> /\ resp[1].status = 402
  /\ pc[2] = "done" /\ resp[2].status = 200

\* Request r carries no proof header: Payment-Signature absent or empty, and
\* no X-PAYMENT either.
NoProofHeader(r) ==
  /\ req[r].route # "none"
  /\ ~req[r].sig.present \/ req[r].sig.val = <<>>
  /\ ~req[r].xpay.present

\* C14: a request to a protected route with no proof header (absent or empty
\* Payment-Signature) receives the 402 PaymentRequired body; no settle call
\* is issued, no PaymentContext is attached and the handler is not invoked.
C14_NoProofGets402 ==
  \A r \in Reqs :
    (server.proto = "v2" /\ NoProofHeader(r)) =>
      /\ calls[r] = <<>> /\ ~x402[r].attached /\ runs[r] = 0 /\ reply[r] = NoReply
      /\ pc[r] = "done" => IsPaymentRequired(resp[r]) /\ Len(resp[r].accepts) > 0

C14_Witness ==
  \E r \in Reqs :
    /\ server.proto = "v2" /\ pc[r] = "done" /\ req[r].route = "/weather"
    /\ req[r].sig = Header(<<>>) /\ IsPaymentRequired(resp[r])

\* C15: every 400 response carries a machine-readable code field.
C15_BadRequestHasCode ==
  \A r \in Reqs : resp[r].status = 400 => resp[r].code # Undef

\* C16: every amount in a PaymentRequired body parses as a positive integer,
\* for any options the middleware factory accepts and for the hard-coded
\* cross-chain body.
C16_AmountsArePositiveIntegers ==
  \A r \in Reqs :
    IsPaymentRequired(resp[r]) =>
      \A i \in 1..Len(resp[r].accepts) : ParsesAsPositiveInteger(resp[r].accepts[i].amount)

\* C17: every PaymentRequired body has a non-empty list of requirements, for
\* every acceptTokens configuration the middleware factory accepts.
C17_AcceptsNonEmpty ==
  \A r \in Reqs : IsPaymentRequired(resp[r]) => Len(resp[r].accepts) > 0

\* C18: at most one PaymentContext is attached to a request, and once
\* attached it is never replaced or modified.
C18_ContextAttachedOnce ==
  [][\A r \in Reqs : x402[r].attached => x402'[r] = x402[r]]_vars

C18_Witness ==
  /\ x402[1].attached /\ x402[1].network = "stacks" /\ req[1].route = "/weather"
  /\ pc[2] = "done" /\ x402[2].attached /\ x402[2] # x402[1]

\* The list acc holds exactly one requirement per token of T, in the order of
\* T, each with the configured network's identifier, the registry's asset
\* identifier and the decimal string of the price p.
OneRequirementPerToken(acc, p, T) ==
  /\ Len(acc) = Len(T)
  /\ \A i \in 1..Len(T) :
       /\ acc[i].tokenType = T[i]
       /\ acc[i].network = IF stacksConfig.network = "mainnet" THEN <<"stacks", "1">>
                           ELSE <<"stacks", "2147483648">>
       /\ acc[i].asset = IF T[i] = "STX" THEN <<"STX">>
                         ELSE <<TOKEN_CONTRACTS[stacksConfig.network][T[i]].address,
                                TOKEN_CONTRACTS[stacksConfig.network][T[i]].name,
                                TOKEN_CONTRACTS[stacksConfig.network][T[i]].name>>
       /\ acc[i].amount = ToString(p)
       /\ p = 1000 => acc[i].amount = "1000"

\* The PaymentRequired body of the route built with the factory.
FactoryPaymentRequired(r) == req[r].route = "/api/data" /\ IsPaymentRequired(resp[r])

\* C19 (as stated): for the structured layout and for the legacy layout, the
\* PaymentRequired for price p and token set T holds exactly one requirement
\* per token of T, in the order of T.
C19_OnePerTokenBothLayouts ==
  \A r \in Reqs :
    FactoryPaymentRequired(r) =>
      OneRequirementPerToken(resp[r].accepts, options.amount, options.acceptTokens)

\* C19 (amended): the structured layout holds exactly one requirement per
\* token of T, in the order of T, with the configured network's identifier,
\* the registry's asset identifier and the decimal string of p; the legacy
\* layout holds exactly one requirement, for the token type the request
\* selected (a member of T), with the same network, asset and amount.
C19_RequirementsPerLayout ==
  \A r \in Reqs :
    FactoryPaymentRequired(r) =>
      IF server.proto = "v2"
      THEN OneRequirementPerToken(resp[r].accepts, options.amount, options.acceptTokens)
      ELSE /\ Includes(options.acceptTokens, SelectedToken(r))
           /\ OneRequirementPerToken(resp[r].accepts, options.amount, <<SelectedToken(r)>>)

C19_Witness ==
  \E r \in Reqs :
    /\ FactoryPaymentRequired(r) /\ server.proto = "v2"
    /\ stacksConfig.network = "mainnet"
    /\ options = [amount |-> 1000, acceptTokens |-> <<"sBTC", "STX">>]
    /\ Len(resp[r].accepts) = 2

EvmReached(r) == runs[r] = 1 /\ calls[r] = <<>>

\* C22: no console line and no error response body of the gateway contains
\* the client's proof, in whole or as an unredacted prefix.
C22_ProofNeverLogged ==
  \A r \in Reqs :
    /\ \A i \in 1..Len(logs[r]) : logs[r][i].header = "none"
    /\ resp[r].status \in {400, 402, 502} =>
         resp[r].details \notin Proofs \cup {"0x_mock_signature_for_demo"}

\* C24: when the EVM client retries GET /weather with the payment-signature
\* header it builds, the server routes it to the EVM path and answers with
\* the resource.
C24_EvmClientServed ==
  \A r \in Reqs :
    (server.proto = "v2" /\ req[r].route = "/weather" /\ req[r].sig = Header(EvmClientSig)
       /\ pc[r] = "done") =>
      EvmReached(r) /\ resp[r].status = 200

\* C25: on the legacy cross-chain endpoint every request with an X-PAYMENT
\* header goes to the Stacks middleware, and the EVM handler is reached only
\* when X-PAYMENT is absent and Payment-Signature is present, whatever the
\* length or prefix of the X-PAYMENT value.
C25_LegacyRoutingByHeaderName ==
  \A r \in Reqs :
    (server.proto = "legacy" /\ req[r].route = "/weather" /\ pc[r] = "done") =>
      /\ req[r].xpay.present => ~EvmReached(r)
      /\ EvmReached(r) => ~req[r].xpay.present /\ req[r].sig.present

\* C28: every response released after a successful settlement carries the
\* settlement-evidence header and the payer-address header.
C28_BothEvidenceHeaders ==
  \A r \in Reqs :
    (pc[r] = "done" /\ resp[r].status = 200 /\ calls[r] # <<>>) =>
      hdrs[r].paymentResponse # NoBody /\ hdrs[r].payerAddress # Undef

\* C30: on the Hono cross-chain GET /weather, when the Stacks middleware
\* rejects a Stacks-routed payment the client receives the middleware's 400,
\* 402 or 502 response.
C30_HonoRelaysMiddlewareError ==
  \A r \in Reqs :
    (server.framework = "hono" /\ req[r].route = "/weather" /\ pc[r] = "done"
       /\ ~Falsy(req[r].sig) /\ CrossChainRoute(req[r].sig) = "stacks"
       /\ runs[r] = 0 /\ ~escaped[r]) =>
      resp[r].status \in {400, 402, 502}

\* The same deployment on the other framework.
OtherFramework(srv) ==
  [framework |-> IF srv.framework = "express" THEN "hono" ELSE "express",
   proto |-> srv.proto]

\* C23: the Express and the Hono servers return identical 402 bodies for the
\* same request on /stacks/weather, /evm/weather and the cross-chain /weather.
C23_FrameworksAgreeOn402 ==
  \A r \in Reqs :
    (server.proto = "v2" /\ pc[r] = "done" /\ IsPaymentRequired(resp[r])
       /\ req[r].route \in {"/stacks/weather", "/evm/weather", "/weather"}) =>
      Dispatch(OtherFramework(server), stacksConfig, req[r]) = Respond(resp[r])

NonNativePairs == {"mainnet", "testnet"} \X {"sBTC", "USDCx"}

\* C29: getAssetIdentifier is defined for every network and token; it gives
\* "STX" for the native token on every network and, for a non-native token,
\* "<address>.<name>::<name>" of the registry entry of that (network, token)
\* pair, so distinct non-native pairs have distinct identifiers.
C29_AssetLookup ==
  /\ \A n \in {"mainnet", "testnet"} : getAssetIdentifier("STX", n) = <<"STX">>
  /\ \A x, y \in NonNativePairs :
       x # y => getAssetIdentifier(x[2], x[1]) # getAssetIdentifier(y[2], y[1])
  /\ \A r \in Reqs :
       FactoryPaymentRequired(r) =>
         \A i \in 1..Len(resp[r].accepts) :
           LET a == resp[r].accepts[i] IN
           IF a.tokenType = "STX" THEN a.asset = <<"STX">>
           ELSE LET entry == TOKEN_CONTRACTS[stacksConfig.network][a.tokenType] IN
                a.asset = <<entry.address, entry.name, entry.name>>

C29_Witness ==
  \E r \in Reqs :
    /\ FactoryPaymentRequired(r) /\ stacksConfig.network = "mainnet"
    /\ \E i \in 1..Len(resp[r].accepts) :
         /\ resp[r].accepts[i].tokenType = "USDCx"
         /\ resp[r].accepts[i].asset =
              <<"SP120SBRBQJ00MCWS7TM5R8WJNTTKD5K0HFRC2CNE", "usdcx", "usdcx">>

\* The decoded payload of request r carries an accepted.network.
CarriesNetwork(r) == HasAccepted(r) /\ HasNetwork(AcceptedPool[DecodedOf(r).accepted])

NetworkOf(r) == AcceptedPool[DecodedOf(r).accepted].network

\* The handler of request r has run up to its routing decision.
Routed(r) == PcRank(pc[r]) >= 2

\* C21: on the cross-chain endpoint two requests whose decoded payloads carry
\* the same accepted.network go to the same verification capability, whatever
\* their other fields and the order in which they arrive.
C21_RoutingByNetworkAlone ==
  \A r1, r2 \in Reqs :
    (Routed(r1) /\ Routed(r2) /\ CarriesNetwork(r1) /\ CarriesNetwork(r2)
       /\ NetworkOf(r1) = NetworkOf(r2)) =>
      /\ EvmReached(r1) <=> EvmReached(r2)
      /\ EvmReached(r1) <=> ~StartsWithStacks(NetworkOf(r1))

C21_Witness ==
  /\ Routed(1) /\ Routed(2) /\ CarriesNetwork(1) /\ CarriesNetwork(2)
  /\ NetworkOf(1) = NetworkOf(2)
  /\ DecodedOf(1).accepted = "aSTX" /\ DecodedOf(2).accepted = "aNoTok"
  /\ calls[1] # <<>> /\ calls[2] # <<>>

\* The response of request r was chosen by the framework, not by the handler.
FrameworkAnswered(r) == escaped[r] \/ HonoDropsResponse(server, req[r])

C27_ClientSendsProofOnce ==
  /\ [][/\ client'.requests <= 2 /\ client'.proofsSent <= 1
        /\ client.step = "awaiting-paid" => client'.step \in ClientTerminal
        /\ client.step \in ClientTerminal => client' = client]_vars
  /\ <>[](client.step \in ClientTerminal \cup {"awaiting-initial", "awaiting-paid"})

C27_Witness ==
  /\ client.step = "returned" /\ client.status = 502
  /\ client.requests = 2 /\ client.proofsSent = 1

(***************************************************************************)
(* Advertised and submitted requirements.                                  *)
(***************************************************************************)

\* Request r, on the v2 cross-chain GET /weather, had a settle call issued.
CrossChainSettled(r) ==
  /\ server.proto = "v2"
  /\ req[r].route = "/weather"
  /\ calls[r] # <<>>

\* C31: on the cross-chain GET /weather, every settle call is for a token the
\* 402 body advertises as an option, with the amount advertised for it.
C31_SettledAtAdvertisedAmount ==
  \A r \in Reqs :
    CrossChainSettled(r) =>
      \E i \in 1..Len(CrossChainAcceptsV2(stacksConfig)) :
        LET option == CrossChainAcceptsV2(stacksConfig)[i] IN
        /\ option.tokenType = SettleCallOf(r).tokenType
        /\ option.amount = SettleCallOf(r).amount

\* The requirements the 402 body of request r's route advertises: the accepts
\* list the server answers with when the same request comes without a proof.
AdvertisedFor(r) ==
  Dispatch(server, stacksConfig,
           Request(req[r].route, NoHeader, NoXPayment, req[r].tok)).resp.accepts

\* C32: every settle call carries a requirement equal in network, asset,
\* amount and payTo to one of the requirements advertised in the 402 body of
\* its route.
C32_SettleCallIsAdvertised ==
  \A r \in Reqs :
    calls[r] # <<>> =>
      \E i \in 1..Len(AdvertisedFor(r)) :
        LET option == AdvertisedFor(r)[i] IN
        /\ option.network = SettleCallOf(r).network
        /\ option.asset = SettleCallOf(r).asset
        /\ option.amount = SettleCallOf(r).amount
        /\ option.payTo = SettleCallOf(r).payTo

\* The accepted requirement inside the payload of request r.
AcceptedOf(r) == AcceptedPool[DecodedOf(r).accepted]

\* Requests r1 and r2 go to the same route with payloads that differ at most
\* in accepted.amount and accepted.payTo.
SameButClaimedTerms(r1, r2) ==
  /\ HasAccepted(r1) /\ HasAccepted(r2)
  /\ req[r1].route = req[r2].route
  /\ DecodedOf(r1).x402Version = DecodedOf(r2).x402Version
  /\ DecodedOf(r1).payload = DecodedOf(r2).payload
  /\ AcceptedOf(r1).network = AcceptedOf(r2).network
  /\ AcceptedOf(r1).asset = AcceptedOf(r2).asset
  /\ AcceptedOf(r1).tokenType = AcceptedOf(r2).tokenType

\* C33: two requests to the same route whose payloads differ only in
\* accepted.amount or accepted.payTo produce settle calls with the same
\* amount and payTo.
C33_TermsFromConfigurationOnly ==
  \A r1, r2 \in Reqs :
    SameButClaimedTerms(r1, r2) /\ pc[r1] # "received" /\ pc[r2] # "received" =>
      /\ calls[r1] # <<>> /\ calls[r2] # <<>>
      /\ SettleCallOf(r1).amount = SettleCallOf(r2).amount
      /\ SettleCallOf(r1).payTo = SettleCallOf(r2).payTo

\* Two requests to the same route, one whose payload claims another amount
\* and one whose payload claims another recipient, have both been submitted.
C33_Witness ==
  \E r1, r2 \in Reqs :
    /\ SameButClaimedTerms(r1, r2) /\ calls[r1] # <<>> /\ calls[r2] # <<>>
    /\ AcceptedOf(r1).amount # SettleCallOf(r1).amount
    /\ AcceptedOf(r2).payTo # SettleCallOf(r2).payTo

\* C34: at most one settle call is issued per incoming request; a step that
\* issues one does so for a request that had none.
C34_OneSettleCallPerRequest ==
  [][\A r \in Reqs : calls'[r] # calls[r] => calls[r] = <<>> /\ Len(calls'[r]) = 1]_vars

\* One request was answered after a transport failure of its settle call and
\* another after success=false, each with one call issued.
C34_Witness ==
  \E r1, r2 \in Reqs :
    /\ pc[r1] = "done" /\ reply[r1].kind = "neterr" /\ Len(calls[r1]) = 1
    /\ pc[r2] = "done" /\ reply[r2].kind = "rejected" /\ Len(calls[r2]) = 1

\* Request r carries a proof that decodes to a payload with another
\* x402Version than 2 (or none) and belongs to the Stacks path: a Stacks
\* route, or the cross-chain route with a stacks: network in the payload.
WrongVersionForStacks(r) ==
  /\ server.proto = "v2"
  /\ req[r].route \in {"/stacks/weather", "/stacks/ai/complete", "/weather"}
  /\ ~NoProofHeader(r)
  /\ DecodedOf(r).kind = "object"
  /\ DecodedOf(r).x402Version # "2"
  /\ req[r].route = "/weather" =>
       /\ DecodedOf(r).accepted # Undef
       /\ StartsWithStacks(AcceptedPool[DecodedOf(r).accepted].network)

\* C35: a decoded payload whose x402Version is not 2 is answered with 400,
\* without a facilitator call, without a PaymentContext and without running
\* the handler.
C35_WrongVersionRejected ==
  \A r \in Reqs :
    WrongVersionForStacks(r) =>
      /\ calls[r] = <<>>
      /\ ~x402[r].attached
      /\ runs[r] = 0
      /\ pc[r] = "done" => resp[r].status = 400

\* Request r, to a route of the legacy Stacks middleware, carries no proof
\* and has been answered.
LegacyAnsweredWithoutProof(r) ==
  /\ server.proto = "legacy"
  /\ req[r].route \in {"/stacks/weather", "/stacks/ai/complete"}
  /\ ~req[r].xpay.present
  /\ pc[r] = "done"

\* The X-PAYMENT-TOKEN-TYPE header of request r is absent (or empty).
TokenHeaderAbsent(r) == req[r].tok = Undef \/ req[r].tok = ""

\* C36: in the legacy middleware a request without a proof gets the 402 body
\* exactly when its X-PAYMENT-TOKEN-TYPE header is absent or names an accepted
\* token, and a 400 otherwise; the 402 body holds one requirement, for that
\* token type (STX when the header is absent).
C36_LegacyTokenCheckedBefore402 ==
  \A r \in Reqs :
    LegacyAnsweredWithoutProof(r) =>
      IF TokenHeaderAbsent(r) \/ Includes(RouteAcceptTokens(req[r].route), req[r].tok)
      THEN /\ resp[r].status = 402
           /\ Len(resp[r].accepts) = 1
           /\ resp[r].accepts[1].tokenType =
                (IF TokenHeaderAbsent(r) THEN "STX" ELSE req[r].tok)
      ELSE /\ resp[r].status = 400
           /\ resp[r].accepts = <<>>

\* One request asked for sBTC and got the sBTC requirement, another named an
\* unknown token and got the 400.
C36_Witness ==
  \E r1, r2 \in Reqs :
    /\ LegacyAnsweredWithoutProof(r1) /\ req[r1].tok = "sBTC"
    /\ resp[r1].status = 402 /\ resp[r1].accepts[1].tokenType = "sBTC"
    /\ LegacyAnsweredWithoutProof(r2) /\ req[r2].tok = "DOGE"
    /\ resp[r2].status = 400

\* Option i of the 402 body the client received is a Stacks option for the
\* token the client asked for (an option without token type counts as STX).
MatchesRequest(i) ==
  /\ StartsWithStacks(client.offer[i].network)
  /\ (IF client.offer[i].tokenType = Undef THEN "STX"
      ELSE client.offer[i].tokenType) = client.tokenType

\* The accepted requirement of payload p has the terms of option i.
AcceptedIsOption(p, i) ==
  /\ p.accepted # Undef
  /\ AcceptedPool[p.accepted].network = client.offer[i].network
  /\ AcceptedPool[p.accepted].asset = client.offer[i].asset
  /\ AcceptedPool[p.accepted].amount = client.offer[i].amount
  /\ AcceptedPool[p.accepted].payTo = client.offer[i].payTo
  /\ AcceptedPool[p.accepted].tokenType = client.offer[i].tokenType

\* C37: the client builds and sends a Payment-Signature header only after a
\* 402 body with a Stacks option for the requested token; the accepted
\* requirement in the header it sends is the first such option of the body,
\* unmodified; without a matching option no proof is built or sent.
C37_ClientAcceptsOfferedOption ==
  IF \E i \in 1..Len(client.offer) : MatchesRequest(i)
  THEN client.header # <<>> =>
         \E i \in 1..Len(client.offer) :
           /\ MatchesRequest(i)
           /\ \A j \in 1..(i - 1) : ~MatchesRequest(j)
           /\ AcceptedIsOption(client.payload, i)
           /\ AcceptedIsOption(decodePaymentSignature(client.header), i)
  ELSE client.header = <<>> /\ client.proofsSent = 0

\* The client asked for sBTC, was offered the cross-chain options, and sent
\* the sBTC option (amount 100) back.
C37_Witness ==
  /\ client.proofsSent = 1
  /\ client.tokenType = "sBTC"
  /\ client.offer = CrossChainAcceptsV2(stacksConfig)
  /\ AcceptedPool[client.payload.accepted].amount = "100"

====
